---------------------------- MODULE Spec2Model ----------------------------
(***************************************************************************)
(* Policy iteration (policy_eval + policy_improvement) of                  *)
(* "Programming Assignments/Dynamic Programming/policy_iteration.py".      *)
(*                                                                         *)
(* Numbers.  The program computes in IEEE doubles.  Here a float x is the  *)
(* integer nearest to x * SCALE (fixed point, every product rounded to the *)
(* nearest unit, as a float operation rounds to the nearest double).       *)
(* Probabilities and the discount factor are exact fractions; an entry of  *)
(* a policy row is stored as a multiple of 1/env.nA, so that the uniform   *)
(* row 1/nA is 1 and a one-hot row is nA at one place and 0 elsewhere.     *)
(***************************************************************************)
EXTENDS Integers, Sequences, FiniteSets, TLC

\* ------------------------------------------------------------------ bounds
SCALE       == 1000000  \* fixed-point units per 1.0
DiscountDen == 2        \* discount factors are k/DiscountDen, k in 1..DiscountDen
MaxStates   == 3        \* chain environments have 1..MaxStates states
MaxAbsV     == 30       \* an evaluation whose values leave +-MaxAbsV is cut off
MaxCount    == 3        \* the history counts rounds and sweeps up to MaxCount

\* ------------------------------------------------------------- arithmetic
Abs(x) == IF x < 0 THEN -x ELSE x

Max2(x, y) == IF x >= y THEN x ELSE y

Min2(x, y) == IF x <= y THEN x ELSE y

\* n / d rounded to the nearest integer (d > 0)
RoundDiv(n, d) == (2 * n + d) \div (2 * d)

RECURSIVE SumSeq(_)
SumSeq(q) == IF q = << >> THEN 0 ELSE Head(q) + SumSeq(Tail(q))

\* the function f over 0..n-1 as the sequence f[0], ..., f[n-1]
AsSeq(f, n) == [i \in 1..n |-> f[i - 1]]

\* ------------------------------------------------------------ environments
\* One transition tuple (prob, next_state, reward, done) of env.P[s][a];
\* prob is the fraction pn/pd.
Outcome(pn, pd, ns, r, d) ==
    [prob |-> [n |-> pn, d |-> pd], next_state |-> ns, reward |-> r, done |-> d]

Rewards == {-1, 0, 1, 2}

Kinds == {"next", "stay", "exit", "back", "coin"}

\* Chain environment: states 0..nS-1, the last one terminal (every action
\* loops there with reward 0, done); in the others action a moves as kind[a]
\* says and pays rew[a].
ChainP(nS, kind, rew, s, a) ==
    LET T == nS - 1
        nx == IF s + 1 <= T THEN s + 1 ELSE T
        bk == IF s = 0 THEN 0 ELSE s - 1
    IN  IF s = T THEN << Outcome(1, 1, s, 0, TRUE) >>
        ELSE CASE kind[a] = "next" -> << Outcome(1, 1, nx, rew[a], nx = T) >>
               [] kind[a] = "stay" -> << Outcome(1, 1, s, rew[a], FALSE) >>
               [] kind[a] = "exit" -> << Outcome(1, 1, T, rew[a], TRUE) >>
               [] kind[a] = "back" -> << Outcome(1, 1, bk, rew[a], FALSE) >>
               [] kind[a] = "coin" -> << Outcome(1, 2, s, rew[a], FALSE),
                                         Outcome(1, 2, T, rew[a], TRUE) >>

ChainEnv(nS, nA, kind, rew) ==
    [nS |-> nS, nA |-> nA,
     P  |-> [s \in 0..(nS - 1) |-> [a \in 0..(nA - 1) |-> ChainP(nS, kind, rew, s, a)]]]

ChainEnvs ==
    { ChainEnv(nS, 2, kind, rew) :
        nS \in 1..MaxStates, kind \in [0..1 -> Kinds], rew \in [0..1 -> Rewards] }

\* lib.envs.gridworld.GridworldEnv(): 4x4 grid, states row-major, actions
\* UP=0 RIGHT=1 DOWN=2 LEFT=3, a move off the grid stays in place, the two
\* corner states 0 and 15 are terminal (every action loops with reward 0),
\* every other move costs -1.
GridShape == <<4, 4>>

GridP(s, a) ==
    LET rows == GridShape[1]
        cols == GridShape[2]
        last == rows * cols - 1
        y  == s \div cols
        x  == s % cols
        ns == CASE a = 0 -> IF y = 0 THEN s ELSE s - cols
                [] a = 1 -> IF x = cols - 1 THEN s ELSE s + 1
                [] a = 2 -> IF y = rows - 1 THEN s ELSE s + cols
                [] a = 3 -> IF x = 0 THEN s ELSE s - 1
    IN  IF s = 0 \/ s = last
        THEN << Outcome(1, 1, s, 0, TRUE) >>
        ELSE << Outcome(1, 1, ns, -1, ns = 0 \/ ns = last) >>

GridworldEnv ==
    [nS |-> GridShape[1] * GridShape[2], nA |-> 4,
     P  |-> [s \in 0..(GridShape[1] * GridShape[2] - 1) |-> [a \in 0..3 |-> GridP(s, a)]]]

Envs == ChainEnvs \cup {GridworldEnv}

\* ------------------------------------------------------------------- state
VARIABLES
    env,             \* the environment passed in (env.nS, env.nA, env.P)
    discount_factor, \* policy_improvement's argument, numerator over DiscountDen
    pc,              \* position in policy_improvement / policy_eval
    policy,          \* policy_improvement: policy[s][a], in units of 1/env.nA
    V,               \* policy_improvement: V (result of the last evaluation)
    policy_stable,   \* policy_improvement: policy_stable
    si,              \* policy_improvement: loop index of `for s in range(env.nS)`
    e_discount,      \* policy_eval: its discount_factor parameter
    e_theta,         \* policy_eval: its theta parameter
    eV,              \* policy_eval: V
    delta,           \* policy_eval: delta
    es,              \* policy_eval: loop index of `for s in range(env.nS)`
    h                \* history: what the claims speak of and the code does not keep

vars == << env, discount_factor, pc, policy, V, policy_stable, si,
           e_discount, e_theta, eV, delta, es, h >>

States  == 0..(env.nS - 1)
Actions == 0..(env.nA - 1)

\* theta=0.00001, discount_factor=1.0: the defaults of policy_eval
ThetaDefault    == SCALE \div 100000
DiscountDefault == DiscountDen

\* np.ones(n) where np.zeros(n) is meant
ones(n) == [i \in 0..(n - 1) |-> SCALE]

\* np.zeros(n)
zeros(n) == [i \in 0..(n - 1) |-> 0]

\* np.eye(n)[k], in units of 1/n
eye(n, k) == [i \in 0..(n - 1) |-> IF i = k THEN n ELSE 0]

\* np.ones([nS, nA]) / nA
UniformPolicy(nS, nA) == [s \in 0..(nS - 1) |-> [a \in 0..(nA - 1) |-> 1]]

\* the last index holding the maximum, where np.argmax returns the first
argmaxLast(row) ==
    CHOOSE a \in DOMAIN row :
        /\ \A b \in DOMAIN row : row[b] <= row[a]
        /\ \A b \in DOMAIN row : b > a => row[b] < row[a]

\* np.argmax(row): the first index holding the maximum
argmax(row) ==
    CHOOSE a \in DOMAIN row :
        /\ \A b \in DOMAIN row : row[b] <= row[a]
        /\ \A b \in DOMAIN row : b < a => row[b] < row[a]

\* action_prob * prob * (reward + discount_factor * V[next_state])
EvalTerm(vec, action_prob, o, disc) ==
    RoundDiv(action_prob * o.prob.n
                * (o.reward * SCALE * DiscountDen + disc * vec[o.next_state]),
             env.nA * o.prob.d * DiscountDen)

\* the full backup of state s: v after the two inner loops of policy_eval
Backup(vec, pol, s, disc) ==
    SumSeq([i \in 1..env.nA |->
        SumSeq([k \in 1..Len(env.P[s][i - 1]) |->
            EvalTerm(vec, pol[s][i - 1], env.P[s][i - 1][k], disc)])])

\* prob * (reward + discount_factor * V[next_state])
LookaheadTerm(vec, o) ==
    RoundDiv(o.prob.n * (o.reward * SCALE * DiscountDen
                            + discount_factor * vec[o.next_state]),
             o.prob.d * DiscountDen)

\* one_step_lookahead(state, V): the vector A
one_step_lookahead(state, vec) ==
    [a \in Actions |->
        SumSeq([k \in 1..Len(env.P[state][a]) |-> LookaheadTerm(vec, env.P[state][a][k])])]

\* the stopping test with its comparison turned round
ConvergedInverted(d, theta) == d > theta

\* the stopping test of policy_eval
Converged(d, theta) == d < theta

InRange(vec) == \A s \in DOMAIN vec : Abs(vec[s]) <= MaxAbsV * SCALE

\* History: rounds and sweeps count the rounds of policy_improvement and the
\* sweeps of the running policy_eval (up to MaxCount); evaluated is the policy
\* handed to the running round's policy_eval; Vprev is the value vector as it
\* stood when the running sweep began; Vlast is the previous round's V; run
\* and ret belong to the second run of IdemSpec.
H0 == [rounds |-> 0, sweeps |-> 0, evaluated |-> << >>, Vprev |-> << >>,
       Vlast |-> << >>, run |-> 1, ret |-> << >>]

Init ==
    /\ env \in Envs
    /\ discount_factor \in 1..DiscountDen
    /\ pc = "pi_while"
    /\ policy = UniformPolicy(env.nS, env.nA)
    /\ V = zeros(env.nS)
    /\ policy_stable = TRUE
    /\ si = 0
    /\ e_discount = DiscountDefault
    /\ e_theta = ThetaDefault
    /\ eV = zeros(env.nS)
    /\ delta = 0
    /\ es = 0
    /\ h = H0

\* line 95, entering policy_eval (line 30): V = policy_eval(policy, env)
CallPolicyEval ==
    /\ pc = "pi_while"
    /\ pc' = "eval_while"
    /\ e_discount' = DiscountDefault
    /\ e_theta' = ThetaDefault
    /\ eV' = zeros(env.nS)
    /\ delta' = 0
    /\ es' = 0
    /\ h' = [h EXCEPT !.rounds = Min2(@ + 1, MaxCount), !.sweeps = 0, !.evaluated = policy,
                      !.Vlast = IF h.rounds = 0 THEN << >> ELSE V]
    /\ UNCHANGED << env, discount_factor, policy, V, policy_stable, si >>

\* lines 32-34: top of a sweep.  `old_v = V` binds a second name to the same
\* array and old_v is never read, so it is no state of its own; h.Vprev keeps
\* what a copy would have held.
EvalSweepStart ==
    /\ pc = "eval_while"
    /\ InRange(eV)
    /\ pc' = "eval_for"
    /\ delta' = 0
    /\ es' = 0
    /\ h' = [h EXCEPT !.Vprev = eV]
    /\ UNCHANGED << env, discount_factor, policy, V, policy_stable, si,
                    e_discount, e_theta, eV >>

\* lines 36-48: the backup of one state
EvalState ==
    /\ pc = "eval_for"
    /\ es < env.nS
    /\ LET v == Backup(eV, policy, es, e_discount)
       IN  /\ delta' = Max2(delta, Abs(v - eV[es]))
           /\ eV' = [eV EXCEPT ![es] = v]
    /\ es' = es + 1
    /\ UNCHANGED << env, discount_factor, pc, policy, V, policy_stable, si,
                    e_discount, e_theta, h >>

\* lines 52-53: end of a sweep, the stopping test
EvalSweepEnd ==
    /\ pc = "eval_for"
    /\ es = env.nS
    /\ pc' = IF Converged(delta, e_theta) THEN "eval_return" ELSE "eval_while"
    /\ h' = [h EXCEPT !.sweeps = Min2(@ + 1, MaxCount)]
    /\ UNCHANGED << env, discount_factor, policy, V, policy_stable, si,
                    e_discount, e_theta, eV, delta, es >>

\* line 55 and lines 95-98: the value vector comes back, the round's for loop starts
EvalReturn ==
    /\ pc = "eval_return"
    /\ V' = eV
    /\ policy_stable' = TRUE
    /\ si' = 0
    /\ pc' = "pi_for"
    /\ UNCHANGED << env, discount_factor, policy, e_discount, e_theta, eV, delta, es, h >>

\* the improvement of one state with old_action read after the row is replaced
ImproveStateStale ==
    /\ pc = "pi_for"
    /\ si < env.nS
    /\ LET action_values == one_step_lookahead(si, V)
           best_a        == argmax(action_values)
           new_row       == eye(env.nA, best_a)
           old_action    == argmax(new_row)
       IN  /\ policy_stable' = IF old_action # best_a THEN FALSE ELSE policy_stable
           /\ policy' = [policy EXCEPT ![si] = new_row]
    /\ si' = si + 1
    /\ UNCHANGED << env, discount_factor, pc, V, e_discount, e_theta, eV, delta, es, h >>

\* lines 101-112: the improvement of one state
ImproveState ==
    /\ pc = "pi_for"
    /\ si < env.nS
    /\ LET old_action    == argmax(policy[si])
           action_values == one_step_lookahead(si, V)
           best_a        == argmax(action_values)
       IN  /\ policy_stable' = IF old_action # best_a THEN FALSE ELSE policy_stable
           /\ policy' = [policy EXCEPT ![si] = eye(env.nA, best_a)]
    /\ si' = si + 1
    /\ UNCHANGED << env, discount_factor, pc, V, e_discount, e_theta, eV, delta, es, h >>

\* lines 115-116: return when stable, else the next round
LoopTest ==
    /\ pc = "pi_for"
    /\ si = env.nS
    /\ pc' = IF policy_stable THEN "returned" ELSE "pi_while"
    /\ UNCHANGED << env, discount_factor, policy, V, policy_stable, si,
                    e_discount, e_theta, eV, delta, es, h >>

Next ==
    \/ CallPolicyEval
    \/ EvalSweepStart
    \/ EvalState
    \/ EvalSweepEnd
    \/ EvalReturn
    \/ ImproveState
    \/ LoopTest

Spec == Init /\ [][Next]_vars

FairSpec == Spec /\ WF_vars(Next)

\* The loop of policy_improvement (lines 93-116) entered once more, with the
\* policy it returned in place of the uniform one of line 91.
Restart ==
    /\ pc = "returned"
    /\ h.run = 1
    /\ pc' = "pi_while"
    /\ h' = [h EXCEPT !.run = 2, !.rounds = 0, !.ret = [policy |-> policy, V |-> V]]
    /\ UNCHANGED << env, discount_factor, policy, V, policy_stable, si,
                    e_discount, e_theta, eV, delta, es >>

IdemNext == Next \/ Restart

IdemSpec == Init /\ [][IdemNext]_vars

\* policy_eval called on its own: policy_eval(policy, env, discount_factor, theta)
Thetas == {ThetaDefault, SCALE \div 100}

EvalPolicies(e) ==
    {UniformPolicy(e.nS, e.nA)}
        \cup {[s \in 0..(e.nS - 1) |-> eye(e.nA, a)] : a \in 0..(e.nA - 1)}

EvalInit ==
    /\ env \in ChainEnvs
    /\ discount_factor \in 1..DiscountDen
    /\ pc = "eval_while"
    /\ policy \in EvalPolicies(env)
    /\ V = zeros(env.nS)
    /\ policy_stable = TRUE
    /\ si = 0
    /\ e_discount = discount_factor
    /\ e_theta \in Thetas
    /\ eV = zeros(env.nS)
    /\ delta = 0
    /\ es = 0
    /\ h = H0

\* line 55, the caller being the test of the evaluation alone
EvalDone ==
    /\ pc = "eval_return"
    /\ pc' = "eval_done"
    /\ V' = eV
    /\ UNCHANGED << env, discount_factor, policy, policy_stable, si,
                    e_discount, e_theta, eV, delta, es, h >>

EvalNext ==
    \/ EvalSweepStart
    \/ EvalState
    \/ EvalSweepEnd
    \/ EvalDone

EvalSpec == EvalInit /\ [][EvalNext]_vars

\* ------------------------------------------------------------------ claims
InEval == pc \in {"eval_while", "eval_for", "eval_return"}

\* a is the lowest-indexed maximiser of the vector A
LowestMaximiser(a, A) ==
    /\ a \in DOMAIN A
    /\ \A b \in DOMAIN A : A[b] <= A[a]
    /\ \A b \in DOMAIN A : A[b] = A[a] => a <= b

\* the lowest-indexed action maximising the one-step lookahead of s under V
Greedy(s) == CHOOSE a \in Actions : LowestMaximiser(a, one_step_lookahead(s, V))

\* C1: inside a sweep of policy_eval every state already backed up holds the
\* backup computed from the value vector as it stood when the sweep began.
C1Claim ==
    pc = "eval_for" =>
        \A s \in States : s < es => eV[s] = Backup(h.Vprev, policy, s, e_discount)

\* C2: whenever policy_improvement evaluates the policy, policy_eval runs with
\* the discount_factor that policy_improvement was given.
C2Claim == InEval => e_discount = discount_factor

\* C3: evaluating the policy that policy_improvement returned gives, at every
\* state, the V it returned (within theta).
C3Claim ==
    (h.run = 2 /\ h.rounds = 1 /\ pc = "eval_return") =>
        \A s \in States : Abs(eV[s] - h.ret.V[s]) <= e_theta

\* C5: started from the policy it returned, the loop is stable in its first
\* round and ends it with the same policy and the same value function.
C5Claim ==
    (h.run = 2 /\ h.rounds = 1 /\ pc = "pi_for" /\ si = env.nS) =>
        /\ policy_stable
        /\ policy = h.ret.policy
        /\ V = h.ret.V

\* within numerical tolerance: 1e-3
Tolerance == SCALE \div 1000

\* C6: for discount_factor < 1 the V of a round is, at every state, at least
\* the V of the round before (within tolerance).
C6Claim ==
    (discount_factor < DiscountDen /\ pc = "pi_for" /\ h.rounds >= 2) =>
        \A s \in States : V[s] >= h.Vlast[s] - Tolerance

\* C10: if every call of policy_eval comes back, policy_improvement returns.
C10Claim == ([]<>(pc = "eval_return")) => <>(pc = "returned")

\* C4: after the improvement step the row of every improved state is one-hot
\* (one entry 1, the others 0, sum 1), its 1 on the lowest-indexed action that
\* maximises the one-step lookahead under V and discount_factor.
C4Theorem ==
    \A s \in States :
        ((pc = "pi_for" /\ s < si) \/ (pc \in {"pi_while", "returned"} /\ h.rounds >= 1)) =>
            \E a \in Actions :
                /\ LowestMaximiser(a, one_step_lookahead(s, V))
                /\ policy[s][a] = env.nA
                /\ \A b \in Actions : b # a => policy[s][b] = 0
                /\ SumSeq(AsSeq(policy[s], env.nA)) = env.nA

\* a round is over in which some state had two different actions tied for the
\* maximum and another had its maximum on an action other than the first
C4Witness ==
    /\ pc = "pi_for"
    /\ si = env.nS
    /\ \E s \in States : \E a, b \in Actions :
          /\ a < b
          /\ env.P[s][a] # env.P[s][b]
          /\ LowestMaximiser(a, one_step_lookahead(s, V))
          /\ one_step_lookahead(s, V)[a] = one_step_lookahead(s, V)[b]
          /\ policy[s][a] = env.nA
    /\ \E s \in States : policy[s][0] = 0

\* expected_v of the test at the end of the file
expected_v == << 0, -1, -2, -3, -1, -2, -3, -2, -2, -3, -2, -1, -3, -2, -1, 0 >>

\* np.testing.assert_array_almost_equal(x, e, decimal=2): |e - x| < 1.5 * 10^-2
AlmostEqual2(x, e) == Abs(e * SCALE - x) * 200 < 3 * SCALE

\* C7: on the 4x4 grid world with discount_factor 1.0 the returned value vector
\* equals expected_v within 2 decimals.
C7Theorem ==
    (pc = "returned" /\ env = GridworldEnv /\ discount_factor = DiscountDen) =>
        \A s \in States : AlmostEqual2(V[s], expected_v[s + 1])

C7Witness ==
    /\ pc = "returned"
    /\ env = GridworldEnv
    /\ discount_factor = DiscountDen
    /\ h.rounds >= 2

\* the single state of env only loops to itself, reward 0, done
SingleTerminal ==
    /\ env.nS = 1
    /\ \A a \in Actions : \A k \in 1..Len(env.P[0][a]) :
          /\ env.P[0][a][k].next_state = 0
          /\ env.P[0][a][k].reward = 0
          /\ env.P[0][a][k].done

\* C8: on a single-state environment of terminal self-loops with reward 0,
\* policy_eval (any policy, discount factor and theta > 0) is over after
\* exactly one sweep, with value 0: once a sweep is done the evaluation is at
\* its return, its first sweep gave delta = 0 < theta.
C8Theorem ==
    (SingleTerminal /\ h.sweeps >= 1) =>
        /\ pc \in {"eval_return", "eval_done"}
        /\ h.sweeps = 1
        /\ delta = 0
        /\ delta < e_theta
        /\ eV = [s \in {0} |-> 0]
        /\ pc = "eval_done" => V = [s \in {0} |-> 0]

C8Witness ==
    /\ SingleTerminal
    /\ pc = "eval_done"
    /\ h.sweeps = 1
    /\ e_theta # ThetaDefault
    /\ e_discount < DiscountDen
    /\ policy[0][0] = 0

\* argmax of the row of s in the policy evaluated in the running round
OldAction(s) == CHOOSE a \in Actions : LowestMaximiser(a, h.evaluated[s])

\* the states below n kept their action in the running round
Unchanged(n) == \A s \in States : s < n => OldAction(s) = Greedy(s)

\* C9: in the improvement loop policy_stable is true exactly when no state so
\* far changed its action, the rows still to come are the evaluated policy's
\* (old_action is read from the old row), the rows done are all replaced by
\* the greedy one-hot row; policy_improvement has returned only after a round
\* in which no state changed, and goes round again only after one in which
\* some state changed.
C9Theorem ==
    /\ pc = "pi_for" =>
          /\ policy_stable <=> Unchanged(si)
          /\ \A s \in States : s >= si => policy[s] = h.evaluated[s]
          /\ \A s \in States : s < si =>
                \A a \in Actions : policy[s][a] = IF a = Greedy(s) THEN env.nA ELSE 0
    /\ pc = "returned" => policy_stable /\ Unchanged(env.nS)
    /\ (pc = "pi_while" /\ h.rounds >= 1) => ~policy_stable /\ ~Unchanged(env.nS)

\* a round of deterministic policies goes round again: an early state changed
\* its action, a later one kept its action and had its row replaced all the same
C9Witness ==
    /\ pc = "pi_while"
    /\ h.rounds >= 2
    /\ \E s, u \in States :
          /\ s < u
          /\ OldAction(s) # Greedy(s)
          /\ OldAction(u) = Greedy(u)
          /\ policy[u][Greedy(u)] = env.nA
=============================================================================
